---- MODULE Spec2Model ----
(***************************************************************************)
(* Model of the user service: the Express handlers over the Supabase       *)
(* "users" table, and the cascading delete call to the properties service. *)
(*                                                                         *)
(* Every handler is split at the store's and the peer's execution of the   *)
(* calls it awaits.  The code before, between and after the awaits touches *)
(* only request-local variables, so it is folded into the step of the next *)
(* call: a step is "the handler runs on until the store (or the peer) has  *)
(* executed its next call, and then up to the call after it or to the      *)
(* response".  Handlers suspended at an await are held in the bag          *)
(* inflight; any number of them may be suspended at once.  The response a  *)
(* step sends stays visible in done until Reply puts it on the wire; a     *)
(* sent response has no further effect on the program, so Reply is taken   *)
(* before any other step.                                                  *)
(***************************************************************************)
EXTENDS Integers, Sequences, FiniteSets, Bags, TLC

\* ---------------------------------------------------------------- bounds
\* Requests received in one behaviour.
MaxRequests == 3

\* ---------------------------------------------------------------- inputs
\* "" stands for a field that is absent or empty: both are falsy in the
\* handlers' validation.  Usernames and emails are drawn from one set of
\* plain values (no PostgREST filter metacharacters), so that a value can be
\* one user's username and another user's email.
Names == {"a", "b"}
Passwords == {"p1", "p2"}
RoleInputs == {"user", "admin", "superadmin"}
Salts == {"s1", "s2"}
\* Ids sent by callers: ids the store assigns, and 0, which it never assigns.
IdInputs == {0, 1, 2}
\* Outcome of an awaited store call: a result, an error object, or a
\* rejected promise (caught by the handler's outer catch).
StoreOutcomes == {"ok", "error", "throw"}
\* Outcome of axios.delete: a 2xx reply, a non-2xx reply with or without
\* an error detail in its body, or no reply at all.
PeerOutcomes == {"success", "reply_detail", "reply_plain", "transport"}

VARIABLES
    users,                \* rows of the users table
    nextId,               \* next id the store assigns (ids are never reused)
    received,             \* requests received so far; also the wall clock
    inflight,             \* bag of the handlers suspended at an await
    done,                 \* the request whose response is being sent
    deleted,              \* ids of the rows the store has removed
    peerLog,              \* user ids of the peer deletion requests sent
    lastSet,              \* per stored id: what Register or UpdateProfile last set
    sent,                 \* responses sent so far
    propertiesServiceUrl  \* TRUE when PROPERTIES_SERVICE_URL is configured

vars == <<users, nextId, received, inflight, done, deleted, peerLog, lastSet,
          sent, propertiesServiceUrl>>

\* ------------------------------------------------------------- bcrypt
\* bcrypt.hash(password, SALT_ROUNDS): a salted digest, a string distinct
\* from every input string.
Hash(password, salt) ==
    CASE password = "p1" /\ salt = "s1" -> "$2b$10$s1.p1"
      [] password = "p1" /\ salt = "s2" -> "$2b$10$s2.p1"
      [] password = "p2" /\ salt = "s1" -> "$2b$10$s1.p2"
      [] password = "p2" /\ salt = "s2" -> "$2b$10$s2.p2"
      [] OTHER -> "$2b$10$other"

\* bcrypt.compare(password, hash): true iff hash is a digest of password.
Compare(password, hash) == \E s \in Salts : hash = Hash(password, s)

\* ------------------------------------------------------------- store
\* Error objects returned by supabase-js; message is the raw store text.
NoError == [code |-> "", message |-> ""]
UniqueViolation ==
    [code |-> "23505", message |-> "duplicate key value violates unique constraint"]
NoRows ==
    [code |-> "PGRST116", message |-> "JSON object requested, multiple (or no) rows returned"]
StoreFailure == [code |-> "08006", message |-> "connection failure"]

\* .select(columns): the projection of a row on the listed columns.
Select(row, columns) == [c \in columns |-> row[c]]

\* Variant: the list of columns of the first version of the service.
ProfileColumnsNoRole == {"id", "username", "email", "created_at"}

\* 'id, username, email, created_at, role'
ProfileColumns == {"id", "username", "email", "created_at", "role"}
AuthColumns == {"id", "username", "email", "password_hash", "role"}

\* Variant: the filter tests the username only.
OrFilterUsernameOnly(rows, u, e) == {r \in rows : r.username = u}

\* .or(`username.eq.${u},email.eq.${e}`)
OrFilter(rows, u, e) == {r \in rows : r.username = u \/ r.email = e}

\* Variant: the filter on id is left out.
EqIdAnyRow(rows, userId) == rows

\* .eq('id', userId)
EqId(rows, userId) == {r \in rows : r.id = userId}

\* Variant: the table has a unique constraint on username only.
ViolatesUniqueUsernameOnly(rows, id, username, email) ==
    \E r \in rows : r.id # id /\ r.username = username

\* The table's unique constraints on username and on email, as the store
\* enforces them on a write of (username, email) to the row with this id.
ViolatesUnique(rows, id, username, email) ==
    \E r \in rows : r.id # id /\ (r.username = username \/ r.email = email)

\* Variant: the delete reports the row but leaves it in the table.
DeleteRowsKept(rows, userId) == rows

\* The table after .delete().eq('id', userId).
DeleteRows(rows, userId) == rows \ EqId(rows, userId)

\* A stored user holds this username or this email.
Taken(rows, username, email) ==
    \E r \in rows : r.username = username \/ r.email = email

\* Variant: the insert writes the username into the email column too.
NewRowEmailFromUsername(id, now, username, email, passwordHash) ==
    [id |-> id, username |-> username, email |-> username,
     password_hash |-> passwordHash, role |-> "user",
     created_at |-> now, updated_at |-> now]

\* The row an insert creates: id and created_at from the store, role from
\* the column default.
NewRow(id, now, username, email, passwordHash) ==
    [id |-> id, username |-> username, email |-> email,
     password_hash |-> passwordHash, role |-> "user",
     created_at |-> now, updated_at |-> now]

\* Variant: the update also stamps created_at.
UpdatedRowStampingCreatedAt(row, now, username, email, role) ==
    [row EXCEPT !.username = username, !.email = email, !.role = role,
                !.updated_at = now, !.created_at = now]

\* The row .update({username, email, role, updated_at}) leaves.
UpdatedRow(row, now, username, email, role) ==
    [row EXCEPT !.username = username, !.email = email, !.role = role,
                !.updated_at = now]

\* ------------------------------------------------------------- requests
NoBody == <<>>
NoResp == [status |-> 0, body |-> NoBody]
Resp(status, body) == [status |-> status, body |-> body]
ErrorBody(text) == [error |-> text]

\* No request.  In done: step names the handler step that sent the response,
\* seen holds the rows the store held when that step ran, peer is
\* axios.delete's outcome.  takenAtCheck records, for a Register, whether a
\* stored user held its username or email when its existence check ran.
NoRequest ==
    [op |-> "none", step |-> "none",
     userId |-> 0, username |-> "", email |-> "", password |-> "",
     role |-> "", identifier |-> "",
     error |-> NoError, resp |-> NoResp, seen |-> {}, peer |-> "none",
     takenAtCheck |-> FALSE]

\* A request arrives (no response is waiting to be sent).
Accept ==
    /\ done = NoRequest
    /\ received < MaxRequests
    /\ received' = received + 1

\* A suspended handler h resumes.
Resume(h, op, step) ==
    /\ done = NoRequest
    /\ h.op = op /\ h.step = step

\* The handler suspends at its next await.
Suspend(step, fields) == [step |-> step] @@ fields @@ NoRequest

\* Variant: the handler does not return after responding and responds once
\* more further down.
FinishWithoutReturn(step, status, body, fields) ==
    /\ done' = [step |-> step, resp |-> Resp(status, body), seen |-> users]
               @@ fields @@ NoRequest
    /\ sent' = sent + 2

\* return res.status(status).json(body)
Finish(step, status, body, fields) ==
    /\ done' = [step |-> step, resp |-> Resp(status, body), seen |-> users]
               @@ fields @@ NoRequest
    /\ sent' = sent + 1

Init ==
    /\ users = {}
    /\ nextId = 1
    /\ received = 0
    /\ inflight = EmptyBag
    /\ done = NoRequest
    /\ deleted = {}
    /\ peerLog = <<>>
    /\ lastSet = <<>>
    /\ sent = 0
    /\ propertiesServiceUrl \in BOOLEAN

\* The response is on the wire.
Reply ==
    /\ done # NoRequest
    /\ done' = NoRequest
    /\ UNCHANGED <<users, nextId, received, inflight, deleted, peerLog, lastSet, sent,
                 propertiesServiceUrl>>

\* ------------------------------------------------------------- POST /register
\* Variant: the validation does not look at the password.
RegisterValidNoPassword(username, email, password) ==
    ~(username = "" \/ email = "")

\* !username || !email || !password is false.
RegisterValid(username, email, password) ==
    ~(username = "" \/ email = "" \/ password = "")

\* Variant: the insert passes req.body.role on when the body has one.
RegisterRoleFromBody(bodyRole) == IF bodyRole = "" THEN "user" ELSE bodyRole

\* The role of the row the insert creates: the handler passes only username,
\* email and password_hash to .insert, so whatever req.body.role is, the
\* column default applies.
RegisterRole(bodyRole) == "user"

\* Validation, then the pre-insert existence check.
Register ==
    /\ Accept
    /\ \E username \in Names \cup {""}, email \in Names \cup {""},
          password \in Passwords \cup {""}, outcome \in StoreOutcomes :
         LET existingUsers == OrFilter(users, username, email)
             fields == [op |-> "register", username |-> username, email |-> email,
                        password |-> password]
         IN IF ~RegisterValid(username, email, password)
            THEN /\ outcome = "ok"
                 /\ Finish("validate", 400,
                           ErrorBody("Username, email, and password are required."), fields)
                 /\ UNCHANGED inflight
            ELSE CASE outcome = "throw" ->
                        /\ Finish("check", 500, ErrorBody("Internal server error during registration"),
                                  [error |-> StoreFailure] @@ fields)
                        /\ UNCHANGED inflight
                   [] outcome = "error" ->
                        /\ Finish("check", 500, ErrorBody("Database error checking user"),
                                  [error |-> StoreFailure] @@ fields)
                        /\ UNCHANGED inflight
                   [] OTHER ->
                        IF existingUsers # {}
                        THEN /\ Finish("check", 409, ErrorBody("Username or email already exists"),
                                       fields)
                             /\ UNCHANGED inflight
                        ELSE /\ inflight' = inflight (+) SetToBag({Suspend("check",
                                       [takenAtCheck |-> Taken(users, username, email)] @@ fields)})
                             /\ UNCHANGED <<done, sent>>
    /\ UNCHANGED <<users, nextId, deleted, peerLog, lastSet, propertiesServiceUrl>>

\* Variant: insertError is not looked at.
RegisterInsertErrorIgnored(insertError) ==
    Resp(201, NoBody)

\* The response to an insert that returned insertError.
RegisterInsertError(insertError) ==
    Resp(500, ErrorBody("Failed to register user"))

\* bcrypt.hash, then the insert, then the response.  An insert the store
\* accepts returns the inserted row, so data is never empty without an error.
\* role is req.body.role: no step before the insert reads it, so it is drawn
\* here, like the salt.
RegisterInsert ==
    \E h \in BagToSet(inflight) :
      /\ Resume(h, "register", "check")
      /\ inflight' = inflight (-) SetToBag({h})
      /\ \E outcome \in StoreOutcomes, salt \in Salts, role \in RoleInputs \cup {""} :
           LET row == [NewRow(nextId, received, h.username, h.email,
                              Hash(h.password, salt))
                          EXCEPT !.role = RegisterRole(role)]
               rejected(e) == Finish("insert", RegisterInsertError(e).status,
                                     RegisterInsertError(e).body, [error |-> e] @@ h)
           IN CASE outcome = "throw" ->
                     /\ Finish("insert", 500, ErrorBody("Internal server error during registration"),
                               [error |-> StoreFailure] @@ h)
                     /\ UNCHANGED <<users, nextId, lastSet>>
                [] outcome = "error" ->
                     /\ rejected(StoreFailure)
                     /\ UNCHANGED <<users, nextId, lastSet>>
                [] OTHER ->
                     IF ViolatesUnique(users, nextId, h.username, h.email)
                     THEN /\ rejected(UniqueViolation)
                          /\ UNCHANGED <<users, nextId, lastSet>>
                     ELSE /\ users' = users \cup {row}
                          /\ nextId' = nextId + 1
                          /\ lastSet' = (row.id :> [username |-> h.username,
                                                     email |-> h.email,
                                                     role |-> "user",
                                                     updated |-> FALSE]) @@ lastSet
                          /\ Finish("insert", 201, Select(row, ProfileColumns),
                                    [userId |-> row.id, role |-> role] @@ h)
      /\ UNCHANGED <<received, deleted, peerLog, propertiesServiceUrl>>

\* ------------------------------------------------------------- GET /profiles
Profiles ==
    /\ Accept
    /\ \E outcome \in StoreOutcomes :
         LET fields == [op |-> "profiles"]
         IN CASE outcome = "throw" ->
                   Finish("read", 500, ErrorBody("Internal server error fetching profiles"),
                          [error |-> StoreFailure] @@ fields)
              [] outcome = "error" ->
                   Finish("read", 500, ErrorBody("Database error fetching profiles"),
                          [error |-> StoreFailure] @@ fields)
              [] OTHER ->
                   Finish("read", 200, [array |-> {Select(r, ProfileColumns) : r \in users}],
                          fields)
    /\ UNCHANGED <<users, nextId, inflight, deleted, peerLog, lastSet, propertiesServiceUrl>>

\* ------------------------------------------------------------- POST /authenticate
\* Variant: the success response carries the whole row that was read.
AuthenticateResultWholeRow(user, password) ==
    IF ~Compare(password, user.password_hash)
    THEN Resp(401, ErrorBody("Invalid credentials"))
    ELSE Resp(200, [message |-> "Authentication successful"] @@ user)

\* Variant: a password mismatch has its own message.
AuthenticateResultTelling(user, password) ==
    IF ~Compare(password, user.password_hash)
    THEN Resp(401, ErrorBody("Invalid password"))
    ELSE Resp(200, [message |-> "Authentication successful", userId |-> user.id,
                    username |-> user.username, email |-> user.email,
                    role |-> user.role])

\* Variant: the success response reports the default role.
AuthenticateResultDefaultRole(user, password) ==
    IF ~Compare(password, user.password_hash)
    THEN Resp(401, ErrorBody("Invalid credentials"))
    ELSE Resp(200, [message |-> "Authentication successful", userId |-> user.id,
                    username |-> user.username, email |-> user.email,
                    role |-> "user"])

\* The response once the lookup returned the row `user` and bcrypt.compare
\* has run.
AuthenticateResult(user, password) ==
    IF ~Compare(password, user.password_hash)
    THEN Resp(401, ErrorBody("Invalid credentials"))
    ELSE Resp(200, [message |-> "Authentication successful", userId |-> user.id,
                    username |-> user.username, email |-> user.email,
                    role |-> user.role])

\* Validation, the lookup (.or(...).limit(1): any one of the matching rows,
\* since the query states no order), bcrypt.compare, and the response.
Authenticate ==
    /\ Accept
    /\ \E identifier \in Names \cup {""}, password \in Passwords \cup {""},
          outcome \in StoreOutcomes :
         LET matching == OrFilter(users, identifier, identifier)
             fields == [op |-> "authenticate", identifier |-> identifier,
                        password |-> password]
         IN IF identifier = "" \/ password = ""
            THEN /\ outcome = "ok"
                 /\ Finish("validate", 400,
                           ErrorBody("Identifier (username or email) and password are required"),
                           fields)
            ELSE CASE outcome = "throw" ->
                        Finish("lookup", 500, ErrorBody("Internal server error during authentication"),
                               [error |-> StoreFailure] @@ fields)
                   [] outcome = "error" ->
                        Finish("lookup", 500, ErrorBody("Database error finding user"),
                               [error |-> StoreFailure] @@ fields)
                   [] OTHER ->
                        IF matching = {}
                        THEN Finish("lookup", 401, ErrorBody("Invalid credentials"), fields)
                        ELSE \E row \in matching :
                               LET user == Select(row, AuthColumns)
                                   res == AuthenticateResult(user, password)
                               IN Finish("lookup", res.status, res.body,
                                         [userId |-> user.id] @@ fields)
    /\ UNCHANGED <<users, nextId, inflight, deleted, peerLog, lastSet, propertiesServiceUrl>>

\* ------------------------------------------------------------- GET /profiles/:userId
\* .select(...).eq('id', userId).single(): the row, or PGRST116 when
\* there is none.
GetProfile ==
    /\ Accept
    /\ \E userId \in IdInputs, outcome \in StoreOutcomes :
         LET rows == EqId(users, userId)
             fields == [op |-> "getProfile", userId |-> userId]
         IN CASE outcome = "throw" ->
                   Finish("read", 500, ErrorBody("Internal server error fetching profile"),
                          [error |-> StoreFailure] @@ fields)
              [] outcome = "error" ->
                   Finish("read", 500, ErrorBody("Database error fetching profile"),
                          [error |-> StoreFailure] @@ fields)
              [] OTHER ->
                   IF rows = {}
                   THEN Finish("read", 404, ErrorBody("User not found"),
                               [error |-> NoRows] @@ fields)
                   ELSE \E row \in rows :
                          Finish("read", 200, Select(row, ProfileColumns), fields)
    /\ UNCHANGED <<users, nextId, inflight, deleted, peerLog, lastSet, propertiesServiceUrl>>

\* ------------------------------------------------------------- PUT /profiles/:userId
\* Variant: the role is only required to be present.
UpdateProfileValidateAnyRole(username, email, role) ==
    IF username = "" \/ email = "" \/ role = ""
    THEN Resp(400, ErrorBody("Username, email, and role are required for update"))
    ELSE NoResp

\* Variant: 'superadmin' is an accepted role.
UpdateProfileValidateSuperadmin(username, email, role) ==
    IF username = "" \/ email = "" \/ role = ""
    THEN Resp(400, ErrorBody("Username, email, and role are required for update"))
    ELSE IF role \notin {"user", "admin", "superadmin"}
    THEN Resp(400, ErrorBody("Invalid role value. Must be \"user\" or \"admin\"."))
    ELSE NoResp

\* The validation of the body: the response it sends, or NoResp when the
\* body passes.
UpdateProfileValidate(username, email, role) ==
    IF username = "" \/ email = "" \/ role = ""
    THEN Resp(400, ErrorBody("Username, email, and role are required for update"))
    ELSE IF role \notin {"user", "admin"}
    THEN Resp(400, ErrorBody("Invalid role value. Must be \"user\" or \"admin\"."))
    ELSE NoResp

\* Variant: a unique violation is answered like any other store error.
UpdateProfileErrorNoConflict(error) ==
    IF error.code = "PGRST116" THEN Resp(404, ErrorBody("User not found"))
    ELSE Resp(500, ErrorBody("Database error updating user"))

\* The response to an update that returned error.
UpdateProfileError(error) ==
    IF error.code = "PGRST116" THEN Resp(404, ErrorBody("User not found"))
    ELSE IF error.code = "23505" THEN Resp(409, ErrorBody("Username or email already exists"))
    ELSE Resp(500, ErrorBody("Database error updating user"))

\* Validation, .update({...}).eq('id', userId).select(...), and the response.
UpdateProfile ==
    /\ Accept
    /\ \E userId \in IdInputs, username \in Names \cup {""}, email \in Names \cup {""},
          role \in RoleInputs \cup {""}, outcome \in StoreOutcomes :
         LET invalid == UpdateProfileValidate(username, email, role)
             rows == EqId(users, userId)
             fields == [op |-> "updateProfile", userId |-> userId,
                        username |-> username, email |-> email, role |-> role]
             failed(e) == Finish("update", UpdateProfileError(e).status,
                                 UpdateProfileError(e).body, [error |-> e] @@ fields)
         IN IF invalid # NoResp
            THEN /\ outcome = "ok"
                 /\ Finish("validate", invalid.status, invalid.body, fields)
                 /\ UNCHANGED <<users, lastSet>>
            ELSE CASE outcome = "throw" ->
                        /\ Finish("update", 500,
                                  ErrorBody("Internal server error during user update"),
                                  [error |-> StoreFailure] @@ fields)
                        /\ UNCHANGED <<users, lastSet>>
                   [] outcome = "error" ->
                        /\ failed(StoreFailure)
                        /\ UNCHANGED <<users, lastSet>>
                   [] OTHER ->
                        IF rows = {}
                        THEN /\ Finish("update", 404, ErrorBody("User not found"), fields)
                             /\ UNCHANGED <<users, lastSet>>
                        ELSE IF ViolatesUnique(users, userId, username, email)
                        THEN /\ failed(UniqueViolation)
                             /\ UNCHANGED <<users, lastSet>>
                        ELSE \E row \in rows :
                               LET new == UpdatedRow(row, received', username, email, role)
                               IN /\ users' = (users \ rows) \cup {new}
                                  /\ lastSet' = (userId :> [username |-> username,
                                                             email |-> email,
                                                             role |-> role,
                                                             updated |-> TRUE]) @@ lastSet
                                  /\ Finish("update", 200, Select(new, ProfileColumns), fields)
    /\ UNCHANGED <<nextId, inflight, deleted, peerLog, propertiesServiceUrl>>

\* ------------------------------------------------------------- DELETE /profiles/:userId
\* Variant: every error of the delete is taken for 'no such row'.
DeleteProfileErrorNotFound(userDeleteError, noRows) ==
    Resp(404, ErrorBody("User not found"))

\* The response to a delete that returned userDeleteError; noRows is
\* (deletedUsers && deletedUsers.length === 0).
DeleteProfileError(userDeleteError, noRows) ==
    IF userDeleteError.code = "PGRST116" \/ noRows
    THEN Resp(404, ErrorBody("User not found"))
    ELSE Resp(500, ErrorBody(IF userDeleteError.message # ""
                             THEN userDeleteError.message
                             ELSE "Database error deleting user"))

\* Variant: the peer request is sent whether or not a row was deleted.
DeleteProfileAfterRowAlways(deletedUsers, url) ==
    IF url THEN "peer"
    ELSE IF deletedUsers = {} THEN "notfound"
    ELSE "skip"

\* Variant: a delete that matched no row counts as done.
DeleteProfileAfterRowIdempotent(deletedUsers, url) ==
    IF deletedUsers = {} THEN "skip"
    ELSE IF url THEN "peer"
    ELSE "skip"

\* Variant: the peer request is sent whether or not a peer is configured.
DeleteProfileAfterRowUnconfigured(deletedUsers, url) ==
    IF deletedUsers = {} THEN "notfound" ELSE "peer"

\* What the handler does once the store has returned deletedUsers without an
\* error: "notfound", "peer" (send the peer request) or "skip".
DeleteProfileAfterRow(deletedUsers, url) ==
    IF deletedUsers = {} THEN "notfound"
    ELSE IF url THEN "peer"
    ELSE "skip"

\* .delete().eq('id', userId).select('id'), then the peer request.
\* A failed store call returns no data (deletedUsers is null).
DeleteProfile ==
    /\ Accept
    /\ \E userId \in IdInputs, outcome \in StoreOutcomes :
         LET rows == EqId(users, userId)
             deletedUsers == {Select(row, {"id"}) : row \in rows}
             todo == DeleteProfileAfterRow(deletedUsers, propertiesServiceUrl)
             fields == [op |-> "deleteProfile", userId |-> userId]
         IN CASE outcome = "throw" ->
                   /\ Finish("delete", 500,
                             ErrorBody("Internal server error during user deletion process"),
                             [error |-> StoreFailure] @@ fields)
                   /\ UNCHANGED <<users, deleted, peerLog, inflight, lastSet>>
              [] outcome = "error" ->
                   /\ Finish("delete", DeleteProfileError(StoreFailure, FALSE).status,
                             DeleteProfileError(StoreFailure, FALSE).body,
                             [error |-> StoreFailure] @@ fields)
                   /\ UNCHANGED <<users, deleted, peerLog, inflight, lastSet>>
              [] OTHER ->
                   /\ users' = DeleteRows(users, userId)
                   /\ deleted' = deleted \cup {d.id : d \in deletedUsers}
                   /\ lastSet' = [id \in DOMAIN lastSet \ {d.id : d \in deletedUsers}
                                     |-> lastSet[id]]
                   /\ CASE todo = "notfound" ->
                             /\ Finish("delete", 404, ErrorBody("User not found"), fields)
                             /\ UNCHANGED <<peerLog, inflight>>
                        [] todo = "peer" ->
                             /\ peerLog' = Append(peerLog, userId)
                             /\ inflight' = inflight (+) SetToBag({Suspend("delete", fields)})
                             /\ UNCHANGED <<done, sent>>
                        [] OTHER ->
                             /\ Finish("delete", 204, NoBody, fields)
                             /\ UNCHANGED <<peerLog, inflight>>
    /\ UNCHANGED <<nextId, propertiesServiceUrl>>

\* propertiesError.response?.data?.error || propertiesError.message
ErrorDetails(outcome) ==
    CASE outcome = "reply_detail" -> "peer error detail"
      [] outcome = "reply_plain" -> "Request failed with status code 500"
      [] OTHER -> "connect ECONNREFUSED"

\* `Failed to delete associated properties: ${errorDetails}`
FailedToDelete(errorDetails) ==
    CASE errorDetails = "peer error detail" ->
           "Failed to delete associated properties: peer error detail"
      [] errorDetails = "Request failed with status code 500" ->
           "Failed to delete associated properties: Request failed with status code 500"
      [] OTHER -> "Failed to delete associated properties: connect ECONNREFUSED"

\* Variant: a peer call that got no reply is sent once more.
DeleteProfilePeerRetryOnTransport(userId, outcome) ==
    IF outcome = "transport" THEN <<userId>> ELSE <<>>

\* The peer requests sent once axios.delete has settled: neither the code
\* after the await nor the catch block sends one.
DeleteProfilePeerRetry(userId, outcome) == <<>>

\* Variant: a failed peer call is logged and the request still ends 204.
DeleteProfilePeerResultSwallowed(outcome) == Resp(204, NoBody)

\* The response once axios.delete has settled.
DeleteProfilePeerResult(outcome) ==
    IF outcome = "success" THEN Resp(204, NoBody)
    ELSE Resp(500, ErrorBody(FailedToDelete(ErrorDetails(outcome))))

\* axios.delete settles, then the response.
DeleteProfilePeer ==
    \E h \in BagToSet(inflight) :
      /\ Resume(h, "deleteProfile", "delete")
      /\ inflight' = inflight (-) SetToBag({h})
      /\ \E outcome \in PeerOutcomes :
           /\ peerLog' = peerLog \o DeleteProfilePeerRetry(h.userId, outcome)
           /\ Finish("peer", DeleteProfilePeerResult(outcome).status,
                     DeleteProfilePeerResult(outcome).body, [peer |-> outcome] @@ h)
      /\ UNCHANGED <<users, nextId, received, deleted, lastSet, propertiesServiceUrl>>

\* -------------------------------------------------------------
Next ==
    \/ Reply
    \/ Register
    \/ RegisterInsert
    \/ Profiles
    \/ Authenticate
    \/ GetProfile
    \/ UpdateProfile
    \/ DeleteProfile
    \/ DeleteProfilePeer

Spec == Init /\ [][Next]_vars

\* Every awaited store call and peer call settles (it returns or fails), and
\* a response that has been sent goes out.
FairSpec ==
    /\ Spec
    /\ WF_vars(RegisterInsert)
    /\ WF_vars(DeleteProfilePeer)
    /\ WF_vars(Reply)

\* ============================================================= properties
Ids(rows) == {r.id : r \in rows}
HashValues == {Hash(p, s) : p \in Passwords, s \in Salts}
InvalidCredentials == Resp(401, ErrorBody("Invalid credentials"))

\* C1: in every reachable state no two stored users share a username, and
\* no two share an email.
C1_UniqueUsernameAndEmail ==
    \A u, v \in users :
        u # v => u.username # v.username /\ u.email # v.email /\ u.id # v.id

\* C1 witness: two users are stored and the store has just rejected a
\* racing Register on its uniqueness constraint.
C1_Witness ==
    /\ Cardinality(users) = 2
    /\ done.op = "register" /\ done.error = UniqueViolation

\* C2: a Register that passed the existence check and whose insert the
\* store then rejected on its uniqueness constraint ends with 409 Conflict.
C2_RaceLostIsConflict ==
    (done.op = "register" /\ done.step = "insert" /\ done.error.code = "23505")
        => done.resp.status = 409

\* A response body carries a password hash: under the key password_hash, or
\* as the value of one of its string fields, or in an element of its array.
CarriesHash(body) ==
    \/ "password_hash" \in DOMAIN body
    \/ \E f \in DOMAIN body \cap {"error", "message", "username", "email", "role"} :
         body[f] \in HashValues

\* C3: no response of any operation carries a password hash.
C3_NoPasswordHashInResponse ==
    done # NoRequest =>
        /\ ~CarriesHash(done.resp.body)
        /\ "array" \in DOMAIN done.resp.body =>
             \A e \in done.resp.body.array : ~CarriesHash(e)

\* C3 witness: Authenticate, which reads password_hash, answers 200 with the
\* user's data.
C3_Witness ==
    /\ done.op = "authenticate" /\ done.resp.status = 200
    /\ \E r \in done.seen : r.id = done.resp.body.userId /\ r.password_hash \in HashValues

\* C4: when the lookup returned, an Authenticate whose identifier matches no
\* user and one whose password is wrong for the user(s) the identifier
\* matches get the same response, 401 {error: 'Invalid credentials'}.
C4_AuthFailuresIdentical ==
    (done.op = "authenticate" /\ done.step = "lookup" /\ done.error = NoError) =>
        LET known == {r \in done.seen :
                        r.username = done.identifier \/ r.email = done.identifier}
            unknownIdentifier == known = {}
            wrongPassword ==
                known # {} /\ \A r \in known : ~Compare(done.password, r.password_hash)
        IN (unknownIdentifier \/ wrongPassword) => done.resp = InvalidCredentials

\* C4 witness: an existing user's identifier with a wrong password is
\* answered 401.
C4_Witness ==
    /\ done.op = "authenticate" /\ done.resp.status = 401
    /\ \E r \in done.seen : r.username = done.identifier
    /\ \A r \in done.seen : ~Compare(done.password, r.password_hash)

\* C5: once the store has confirmed to a DeleteProfile that the row with an
\* id is deleted, a GetProfile of that id whose store read returns answers
\* 404 'User not found', whatever became of the peer call.
C5_GetAfterDeleteNotFound ==
    (done.op = "getProfile" /\ done.userId \in deleted /\ done.error # StoreFailure)
        => done.resp = Resp(404, ErrorBody("User not found"))

\* C5 witness: a GetProfile of a deleted id is answered 404 while the peer
\* request for that id is still unanswered.
C5_Witness ==
    /\ done.op = "getProfile" /\ done.userId \in deleted /\ done.resp.status = 404
    /\ \E h \in BagToSet(inflight) : h.op = "deleteProfile" /\ h.userId = done.userId

\* C6: a peer deletion request is sent only in the step in which the store
\* deleted the row with that id, and a DeleteProfile answered from its store
\* step (not found, store failure, no peer configured) has sent none.
C6_PeerOnlyAfterRowDeleted ==
    [][ /\ peerLog' # peerLog =>
             \E id \in Ids(users) :
                 /\ peerLog' = Append(peerLog, id)
                 /\ id \notin Ids(users')
                 /\ id \in deleted'
        /\ (done' # done /\ done'.op = "deleteProfile" /\ done'.step = "delete")
             => peerLog' = peerLog ]_vars

\* C6 witness: a peer request has been sent for a deleted id, and a later
\* DeleteProfile of the same id is answered 404.
C6_Witness ==
    /\ peerLog # <<>> /\ peerLog[1] \in deleted
    /\ done.op = "deleteProfile" /\ done.resp.status = 404 /\ done.userId = peerLog[1]

PeerFailureBodies ==
    {[error |-> "Failed to delete associated properties: peer error detail"],
     [error |-> "Failed to delete associated properties: Request failed with status code 500"],
     [error |-> "Failed to delete associated properties: connect ECONNREFUSED"]}

\* C7: when the row was deleted and the peer call fails, DeleteProfile ends
\* with 500 {error: 'Failed to delete associated properties: <detail>'} and
\* the row is (and stays) deleted.
C7_PeerFailureIs500 ==
    /\ (done.op = "deleteProfile" /\ done.step = "peer" /\ done.peer # "success") =>
          /\ done.resp.status = 500
          /\ done.resp.body \in PeerFailureBodies
          /\ done.userId \in deleted
    /\ deleted \cap Ids(users) = {}

\* C7 witness: the peer replied with an error detail after the row was
\* deleted.
C7_Witness ==
    /\ done.op = "deleteProfile" /\ done.peer = "reply_detail"
    /\ done.userId \in deleted /\ done.resp.status = 500

\* C8: every stored user's role is 'user' or 'admin'.
C8_RoleIsUserOrAdmin == \A u \in users : u.role \in {"user", "admin"}

\* C8 witness: an UpdateProfile has stored the role 'admin'.
C8_Witness ==
    /\ done.op = "updateProfile" /\ done.resp.status = 200
    /\ \E u \in users : u.role = "admin"

\* C9: a Register with all fields present whose store calls return:
\* if a stored user holds its username or email when its existence check
\* runs, it ends 409 and adds no user; otherwise it goes on to the insert,
\* and if no stored user holds them then either, it ends 201 and adds exactly
\* the user with that username and email.
C9_RegisterOnceThenConflict ==
    (done.op = "register" /\ done.step \in {"check", "insert"}
     /\ done.error # StoreFailure) =>
        LET taken == \E r \in done.seen :
                        r.username = done.username \/ r.email = done.email
        IN IF done.step = "check"
           THEN /\ taken
                /\ done.resp = Resp(409, ErrorBody("Username or email already exists"))
                /\ users = done.seen
           ELSE /\ ~done.takenAtCheck
                /\ ~taken =>
                     /\ done.resp.status = 201
                     /\ \E r \in users \ done.seen :
                          /\ users = done.seen \cup {r}
                          /\ r.id = done.resp.body.id
                          /\ r.username = done.username /\ r.email = done.email

\* C9 witness: a second Register reusing only the email of a stored user is
\* answered 409.
C9_Witness ==
    /\ done.op = "register" /\ done.resp.status = 409
    /\ \E r \in users : r.email = done.email /\ r.username # done.username

\* C10: for every stored user, Authenticate with that user's username or
\* email and registered password succeeds with that user's id, username and
\* email.
C10_AuthenticateOwnCredentials ==
    (done.op = "authenticate" /\ done.step = "lookup" /\ done.error = NoError) =>
        \A u \in done.seen :
            ((u.username = done.identifier \/ u.email = done.identifier)
             /\ Compare(done.password, u.password_hash)) =>
                /\ done.resp.status = 200
                /\ done.resp.body.userId = u.id
                /\ done.resp.body.username = u.username
                /\ done.resp.body.email = u.email

\* C11: for every identifier value, at most one stored user has that value
\* as its username or as its email.
C11_IdentifierNamesOneUser ==
    \A x \in Names :
        Cardinality({u \in users : u.username = x \/ u.email = x}) <= 1

\* C12: a successful Authenticate reports, for the user it names, the role
\* last set for that user: 'user' by Register, or the role of the last
\* successful UpdateProfile.
C12_AuthenticateReturnsLastRole ==
    (done.op = "authenticate" /\ done.resp.status = 200) =>
        /\ done.resp.body.userId \in DOMAIN lastSet
        /\ done.resp.body.role = lastSet[done.resp.body.userId].role

\* C12 witness: a user registered with role 'user' and updated to 'admin'
\* authenticates and is reported as 'admin'.
C12_Witness ==
    /\ done.op = "authenticate" /\ done.resp.status = 200
    /\ done.resp.body.role = "admin"
    /\ lastSet[done.resp.body.userId].updated

\* C13: an UpdateProfile whose role is present but not 'user' or 'admin' is
\* answered 400 by the validation, before any store call, whatever its
\* username, email and id are, and the store is unchanged.
C13_InvalidRoleIsInvalidInput ==
    (done.op = "updateProfile" /\ done.role \notin {"", "user", "admin"}) =>
        /\ done.resp.status = 400
        /\ done.step = "validate"
        /\ users = done.seen

\* C13 witness: an update of an existing user with a valid username and
\* email and the role 'superadmin' is answered 400.
C13_Witness ==
    /\ done.op = "updateProfile" /\ done.role = "superadmin"
    /\ done.username # "" /\ done.email # ""
    /\ done.userId \in Ids(users)
    /\ done.resp.status = 400

\* The error texts the store and the peer produce.
RawErrors ==
    {NoRows.message, UniqueViolation.message, StoreFailure.message,
     "peer error detail", "Request failed with status code 500", "connect ECONNREFUSED"}

\* C14: no response carries a raw store or peer error text as its error
\* message.
C14_NoRawErrorInResponse ==
    (done # NoRequest /\ "error" \in DOMAIN done.resp.body) =>
        done.resp.body.error \notin RawErrors

\* C15: an UpdateProfile of an existing user, whose store call returns, with
\* a username or an email that a different user holds is answered 409, and
\* no stored row is changed.
C15_UpdateConflictIs409 ==
    (/\ done.op = "updateProfile" /\ done.step = "update"
     /\ done.error # StoreFailure
     /\ done.userId \in Ids(done.seen)
     /\ \E r \in done.seen :
           r.id # done.userId /\ (r.username = done.username \/ r.email = done.email)) =>
        /\ done.resp = Resp(409, ErrorBody("Username or email already exists"))
        /\ users = done.seen

\* C15 witness: an update that would give a user another user's email is
\* answered 409.
C15_Witness ==
    /\ done.op = "updateProfile" /\ done.resp.status = 409
    /\ \E r, t \in users :
         /\ r.id = done.userId /\ t.id # r.id
         /\ t.email = done.email /\ t.username # done.username
         /\ r.email # done.email

\* C16: an UpdateProfile with valid fields, whose store call returns, for an
\* id that no stored user has is answered 404 and leaves the store as it was;
\* and only a Register's insert adds an id to the store.
C16_UpdateMissingIsNotFound ==
    [][ /\ (/\ done' # done
            /\ done'.op = "updateProfile" /\ done'.step = "update"
            /\ done'.error # StoreFailure
            /\ done'.userId \notin Ids(users)) =>
               /\ done'.resp = Resp(404, ErrorBody("User not found"))
               /\ users' = users
        /\ ~(Ids(users') \subseteq Ids(users)) =>
               /\ done'.op = "register" /\ done'.step = "insert"
               /\ done'.resp.status = 201 ]_vars

\* C16 witness: an update of an id whose row a DeleteProfile, still waiting
\* for the peer, has deleted is answered 404.
C16_Witness ==
    /\ done.op = "updateProfile" /\ done.resp.status = 404
    /\ done.userId \in deleted
    /\ \E h \in BagToSet(inflight) : h.op = "deleteProfile" /\ h.userId = done.userId

\* C17: a Register with an absent or empty username, email or password is
\* answered 400 by the validation, before any store call; it never reaches
\* the existence check or the insert, and the store is unchanged.
C17_RegisterMissingFieldIsInvalidInput ==
    /\ (done.op = "register"
        /\ (done.username = "" \/ done.email = "" \/ done.password = "")) =>
          /\ done.resp.status = 400
          /\ done.step = "validate"
          /\ users = done.seen
    /\ \A h \in BagToSet(inflight) :
          h.op = "register" => h.username # "" /\ h.email # "" /\ h.password # ""

\* C17 witness: with a user stored, a Register lacking only its password is
\* answered 400.
C17_Witness ==
    /\ done.op = "register" /\ done.resp.status = 400
    /\ done.username # "" /\ done.email # "" /\ done.password = ""
    /\ users # {}

\* C18: a GetProfile, whose store read returns, of an id that a successful
\* Register returned and that no UpdateProfile or DeleteProfile has changed
\* since is answered 200 with that id and the registered username and email.
C18_RegisterThenGetProfile ==
    (/\ done.op = "getProfile" /\ done.error # StoreFailure
     /\ done.userId \in DOMAIN lastSet
     /\ ~lastSet[done.userId].updated) =>
        /\ done.resp.status = 200
        /\ done.resp.body.id = done.userId
        /\ done.resp.body.username = lastSet[done.userId].username
        /\ done.resp.body.email = lastSet[done.userId].email

\* C18 witness: a registered user whose username and email differ, and whom
\* no request has changed since, is read back.
C18_Witness ==
    /\ done.op = "getProfile" /\ done.resp.status = 200
    /\ done.userId \in DOMAIN lastSet /\ ~lastSet[done.userId].updated
    /\ done.resp.body.username # done.resp.body.email

\* C19: every user a Register created has role 'user' until an
\* UpdateProfile changes it, whatever role the Register request carried, and
\* the 201 response reports role 'user'.
C19_RegisterRoleIsUser ==
    /\ (done.op = "register" /\ done.resp.status = 201) =>
          /\ done.resp.body.role = "user"
          /\ \E u \in users : u.id = done.resp.body.id /\ u.role = "user"
    /\ \A id \in DOMAIN lastSet :
          ~lastSet[id].updated => \E u \in users : u.id = id /\ u.role = "user"

\* C19 witness: a Register whose body carried role 'admin' is answered 201.
C19_Witness ==
    /\ done.op = "register" /\ done.resp.status = 201
    /\ done.role = "admin"

\* C20: a DeleteProfile, whose store call returns, of an id that no stored
\* user has is answered 404 and leaves the store as it was; and a peer
\* deletion request is sent only for an id a stored user had.
C20_DeleteMissingIsNotFound ==
    [][ /\ (/\ done' # done
            /\ done'.op = "deleteProfile" /\ done'.step = "delete"
            /\ done'.error # StoreFailure
            /\ done'.userId \notin Ids(users)) =>
               /\ done'.resp = Resp(404, ErrorBody("User not found"))
               /\ users' = users
               /\ peerLog' = peerLog
        /\ Len(peerLog') > Len(peerLog) =>
               peerLog'[Len(peerLog')] \in Ids(users) ]_vars

\* C20 witness: with a user stored and the peer configured, a DeleteProfile
\* of an id the store never assigned is answered 404 and no peer request has
\* been sent.
C20_Witness ==
    /\ done.op = "deleteProfile" /\ done.resp.status = 404
    /\ done.userId \notin deleted /\ done.userId \notin Ids(users)
    /\ users # {} /\ propertiesServiceUrl /\ peerLog = <<>>

\* C21: with no peer configured, a DeleteProfile of a stored id, whose store
\* call returns, deletes that row and only that row and is answered 204; no
\* peer request is ever sent and no DeleteProfile waits for one.
C21_DeleteWithoutPeerSucceeds ==
    ~propertiesServiceUrl =>
        /\ (/\ done.op = "deleteProfile" /\ done.step = "delete"
            /\ done.error # StoreFailure
            /\ done.userId \in Ids(done.seen)) =>
              /\ done.resp = Resp(204, NoBody)
              /\ users = {r \in done.seen : r.id # done.userId}
              /\ done.userId \in deleted
        /\ peerLog = <<>>
        /\ \A h \in BagToSet(inflight) : h.op # "deleteProfile"

\* C21 witness: with no peer configured and two users stored, one of them is
\* deleted and the request is answered 204.
C21_Witness ==
    /\ ~propertiesServiceUrl
    /\ done.op = "deleteProfile" /\ done.resp.status = 204
    /\ Cardinality(done.seen) = 2 /\ Cardinality(users) = 1

\* C22: the peer requests sent are addressed by ids of deleted rows, one per
\* deleted row: no id is addressed twice, so no DeleteProfile sent two
\* requests or sent one again after the peer call failed.
C22_OnePeerRequestPerDelete ==
    /\ \A i \in DOMAIN peerLog : peerLog[i] \in deleted
    /\ \A i, j \in DOMAIN peerLog : i # j => peerLog[i] # peerLog[j]
    /\ \A h \in BagToSet(inflight) :
          h.op = "deleteProfile" =>
              /\ CopiesIn(h, inflight) = 1
              /\ \E i \in DOMAIN peerLog : peerLog[i] = h.userId
    /\ (done.op = "deleteProfile" /\ done.step = "peer") =>
          \E i \in DOMAIN peerLog : peerLog[i] = done.userId

\* C22 witness: the peer call of a DeleteProfile got no reply, the request is
\* answered 500, and one peer request has been sent.
C22_Witness ==
    /\ done.op = "deleteProfile" /\ done.peer = "transport"
    /\ done.resp.status = 500
    /\ peerLog = <<done.userId>>

\* C23: a ListProfiles whose store read returns is answered 200 with exactly
\* the stored users, each as {id, username, email, created_at, role}.
C23_ListProfilesReturnsAll ==
    (done.op = "profiles" /\ done.error # StoreFailure) =>
        /\ done.resp.status = 200
        /\ done.resp.body =
             [array |-> {[id |-> r.id, username |-> r.username, email |-> r.email,
                          created_at |-> r.created_at, role |-> r.role] :
                         r \in done.seen}]
        /\ users = done.seen

\* C23 witness: two users are stored and both are listed.
C23_Witness ==
    /\ done.op = "profiles" /\ done.resp.status = 200
    /\ Cardinality(done.resp.body.array) = 2

\* C24: a step in which a store call fails with an error that is neither
\* 'no rows' nor a unique violation answers the request with 500: the step
\* writes nothing to the store, sends no peer request and leaves no handler
\* of that request waiting for another call.
C24_StoreFailureIs500 ==
    [][ (done' # done /\ done'.error = StoreFailure) =>
            /\ done'.resp.status = 500
            /\ users' = users /\ nextId' = nextId /\ deleted' = deleted
            /\ peerLog' = peerLog
            /\ BagCardinality(inflight') <= BagCardinality(inflight) ]_vars

\* C24 witness: with the peer configured, the store fails on the delete of
\* a stored user; the request is answered 500 and the user is still stored.
C24_Witness ==
    /\ done.op = "deleteProfile" /\ done.error = StoreFailure
    /\ done.userId \in Ids(users) /\ propertiesServiceUrl
    /\ done.resp.status = 500

\* C25: an UpdateProfile answered 200 replaced the row with its id by a row
\* with the same id, created_at and password hash and the request's username,
\* email and role, and left every other row as it was.
C25_UpdateChangesOnlyProfileFields ==
    (done.op = "updateProfile" /\ done.resp.status = 200) =>
        \E r \in done.seen, n \in users :
            /\ r.id = done.userId /\ n.id = r.id
            /\ n.created_at = r.created_at
            /\ n.password_hash = r.password_hash
            /\ n.username = done.username /\ n.email = done.email
            /\ n.role = done.role
            /\ users \ {n} = done.seen \ {r}

\* C25 witness: with two users stored, an update changes the role of one of
\* them.
C25_Witness ==
    /\ done.op = "updateProfile" /\ done.resp.status = 200
    /\ Cardinality(users) = 2
    /\ \E r \in done.seen : r.id = done.userId /\ r.role # done.role

\* C26: a Register is answered 201 only if, when its insert ran, no stored
\* user held its username or its email: of the Registers racing for a
\* username or an email, the one whose insert runs first wins and every later
\* one is answered otherwise.
C26_OneRegisterWins ==
    (done.op = "register" /\ done.resp.status = 201) =>
        /\ \A r \in done.seen :
              r.username # done.username /\ r.email # done.email
        /\ \A id \in DOMAIN lastSet \ {done.userId} :
              /\ lastSet[id].username # done.username
              /\ lastSet[id].email # done.email

\* C26 witness: two Registers sharing only their username both passed the
\* existence check; the second insert has been refused and is not answered
\* 201.
C26_Witness ==
    /\ done.op = "register" /\ done.step = "insert"
    /\ ~done.takenAtCheck /\ done.error = UniqueViolation
    /\ done.resp.status # 201
    /\ \E r \in users : r.username = done.username /\ r.email # done.email

\* C27: every request has exactly one response once its handler has run to
\* the end, and none before: the responses sent are as many as the requests
\* received less the handlers still waiting for a call; and when every
\* awaited call settles, no handler is left waiting: in the end every request
\* received has been answered, once.
C27_ExactlyOneResponse ==
    /\ [](sent = received - BagCardinality(inflight))
    /\ <>[](inflight = EmptyBag /\ done = NoRequest /\ sent = received)

\* C27 witness: a DeleteProfile whose row was deleted and whose peer call
\* failed has been answered, while a Register is still waiting for its
\* insert: three requests received, two responses sent.
C27_Witness ==
    /\ done.op = "deleteProfile" /\ done.step = "peer" /\ done.peer # "success"
    /\ \E h \in BagToSet(inflight) : h.op = "register"
    /\ received = 3 /\ sent = 2

====
